---- MODULE Spec2Model ----
(***************************************************************************)
(* State-machine model of prompttools' OpenAIChatExperiment                *)
(* (src/prompttools/experiment/experiments/openai_chat_experiment.py).     *)
(*                                                                         *)
(* Python values are tagged records so that values of different Python     *)
(* types can be compared; a Python dict is a sequence of [k, v] entries in *)
(* insertion order (dict iteration order is what itertools.product sees).  *)
(***************************************************************************)
EXTENDS Integers, Sequences, FiniteSets, TLC

\* ------------------------------------------------------------------------
\* Bounds
\* ------------------------------------------------------------------------
\* Largest number of execution records the queue may hold.
MaxRecords == 4

\* ------------------------------------------------------------------------
\* Python values
\* ------------------------------------------------------------------------
None == [ty |-> "NoneType"]

Inf == [ty |-> "float", inf |-> TRUE]

Num(n) == [ty |-> "number", num |-> n]

Str(s) == [ty |-> "str", str |-> s]

Bool(b) == [ty |-> "bool", bool |-> b]

\* a conversation: a list of {role, content} messages
Conv(m) == [ty |-> "list", msgs |-> m]

\* a PromptSelector, known here only through its two renderings
Selector(chat, llama) == [ty |-> "PromptSelector", chat |-> chat, llama |-> llama]

IsSelector(x) == x.ty = "PromptSelector"

for_openai_chat(selector) == selector.chat

for_llama(selector) == selector.llama

\* ------------------------------------------------------------------------
\* Python dict, in insertion order
\* ------------------------------------------------------------------------
RECURSIVE Keys(_)
Keys(d) == IF d = <<>> THEN <<>> ELSE <<Head(d).k>> \o Keys(Tail(d))

RECURSIVE Values(_)
Values(d) == IF d = <<>> THEN <<>> ELSE <<Head(d).v>> \o Values(Tail(d))

Has(d, key) == \E i \in 1..Len(d) : d[i].k = key

Get(d, key) == d[CHOOSE i \in 1..Len(d) : d[i].k = key].v

\* d[key] = val: an existing key keeps its position, a new key goes last
SetItem(d, key, val) ==
    IF Has(d, key)
    THEN [d EXCEPT ![CHOOSE i \in 1..Len(d) : d[i].k = key] = [k |-> key, v |-> val]]
    ELSE Append(d, [k |-> key, v |-> val])

DelItem(d, key) == SelectSeq(d, LAMBDA e : e.k # key)

Range(s) == {s[i] : i \in 1..Len(s)}

\* ------------------------------------------------------------------------
\* Conversations and inputs
\* ------------------------------------------------------------------------
Msg(role, content) == [role |-> role, content |-> content]

c1 == Conv(<<Msg("user", "p1")>>)

c2 == Conv(<<Msg("system", "sys"), Msg("user", "p2")>>)

c3 == Conv(<<Msg("user", "p3")>>)

s1 == Selector(c1, "llama-p1")

s2 == Selector(c2, "llama-p2")

\* str(conversation[-1]["content"])
LastContent(conv) == conv.msgs[Len(conv.msgs)].content

\* ------------------------------------------------------------------------
\* __init__
\* ------------------------------------------------------------------------
\* a dict built from a dict comprehension: a repeated key keeps its first
\* position and takes the last value
RECURSIVE DictFrom(_)
DictFrom(entries) ==
    IF entries = <<>> THEN <<>>
    ELSE LET n == Len(entries)
         IN  SetItem(DictFrom(SubSeq(entries, 1, n - 1)), entries[n].k, entries[n].v)

InitPromptKeys(messages) ==
    IF IsSelector(messages[1])
    THEN [kind |-> "dict",
          d |-> DictFrom([i \in 1..Len(messages) |->
                            [k |-> LastContent(for_openai_chat(messages[i])),
                             v |-> for_llama(messages[i])]])]
    ELSE [kind |-> "list", l |-> messages]

InitMessages(messages) ==
    IF IsSelector(messages[1])
    THEN [i \in 1..Len(messages) |-> for_openai_chat(messages[i])]
    ELSE messages

InitAllArgs(model, messages, temperature, logit_bias, azure) ==
    LET full == << [k |-> "model", v |-> model],
                   [k |-> "messages", v |-> InitMessages(messages)],
                   [k |-> "temperature", v |-> temperature],
                   [k |-> "functions", v |-> <<None>>],
                   [k |-> "function_call", v |-> <<None>>],
                   [k |-> "top_p", v |-> <<Num(1)>>],
                   [k |-> "n", v |-> <<Num(1)>>],
                   [k |-> "stream", v |-> <<Bool(FALSE)>>],
                   [k |-> "stop", v |-> <<None>>],
                   [k |-> "max_tokens", v |-> <<Inf>>],
                   [k |-> "presence_penalty", v |-> <<Num(0)>>],
                   [k |-> "frequency_penalty", v |-> <<Num(0)>>],
                   [k |-> "logit_bias", v |-> logit_bias] >>
        nobias == IF Get(full, "logit_bias") = <<None>>
                  THEN DelItem(full, "logit_bias") ELSE full
    IN  IF azure
        THEN SetItem(DelItem(nobias, "model"), "engine", model)
        ELSE nobias

\* the parameter names of __init__'s signature
SignatureParams ==
    {"model", "messages", "temperature", "top_p", "n", "stream", "stop",
     "max_tokens", "presence_penalty", "frequency_penalty", "logit_bias",
     "functions", "function_call", "azure_openai_service_configs"}

\* _validate_arg_key: TRUE when it returns, FALSE when it raises RuntimeError
validate_arg_key(arg_name) ==
    arg_name \in SignatureParams /\ arg_name \notin {"azure_openai_service_configs"}

\* ------------------------------------------------------------------------
\* Argument grid
\* ------------------------------------------------------------------------
\* x prepended to every tuple of tuples
RECURSIVE PrependEach(_, _)
PrependEach(x, tuples) ==
    IF tuples = <<>> THEN <<>>
    ELSE << <<x>> \o Head(tuples) >> \o PrependEach(x, Tail(tuples))

\* for x in head: for t in rest: yield (x,) + t
RECURSIVE ProductStep(_, _)
ProductStep(head, rest) ==
    IF head = <<>> THEN <<>>
    ELSE PrependEach(Head(head), rest) \o ProductStep(Tail(head), rest)

\* every tuple of tuples with x appended
RECURSIVE AppendEach(_, _)
AppendEach(tuples, x) ==
    IF tuples = <<>> THEN <<>>
    ELSE <<Append(Head(tuples), x)>> \o AppendEach(Tail(tuples), x)

RECURSIVE ProductStepFirstFastest(_, _)
ProductStepFirstFastest(rest, last_list) ==
    IF last_list = <<>> THEN <<>>
    ELSE AppendEach(rest, Head(last_list))
         \o ProductStepFirstFastest(rest, Tail(last_list))

\* a product that enumerates with the first list varying fastest
RECURSIVE ProductFirstFastest(_)
ProductFirstFastest(lists) ==
    IF lists = <<>> THEN << <<>> >>
    ELSE ProductStepFirstFastest(ProductFirstFastest(SubSeq(lists, 1, Len(lists) - 1)),
                                 lists[Len(lists)])

\* itertools.product(*lists): the last list varies fastest
RECURSIVE Product(_)
Product(lists) ==
    IF lists = <<>> THEN << <<>> >>
    ELSE ProductStep(Head(lists), Product(Tail(lists)))

\* dict(zip(d, val))
RECURSIVE Zip(_, _)
Zip(keys, val) ==
    IF keys = <<>> \/ val = <<>> THEN <<>>
    ELSE <<[k |-> Head(keys), v |-> Head(val)]>> \o Zip(Tail(keys), Tail(val))

RECURSIVE ZipEach(_, _)
ZipEach(keys, vals) ==
    IF vals = <<>> THEN <<>>
    ELSE <<Zip(keys, Head(vals))>> \o ZipEach(keys, Tail(vals))

\* [dict(zip(d, val)) for val in itertools.product(*d.values())]
Combos(d) == ZipEach(Keys(d), Product(Values(d)))

\* a filter that forgets the infinity sentinel
FilterNoneOnly(combo) == SelectSeq(combo, LAMBDA e : e.v # None)

\* {k: v for k, v in combo.items() if (v is not None) and (v != float("inf"))}
FilterSentinels(combo) == SelectSeq(combo, LAMBDA e : e.v # None /\ e.v # Inf)

\* the keyword sets of the combos, in order
RECURSIVE FilterEach(_)
FilterEach(combos) ==
    IF combos = <<>> THEN <<>>
    ELSE <<FilterSentinels(Head(combos))>> \o FilterEach(Tail(combos))

\* partial_all_args = copy.deepcopy(self.all_args); partial_all_args[name] = [value]
PartialAllArgs(d, arg_name, arg_value) == SetItem(d, arg_name, <<arg_value>>)

\* ------------------------------------------------------------------------
\* Execution queue (parallel accumulators, submission order)
\* ------------------------------------------------------------------------
EmptyQueue == [input_args |-> <<>>, results |-> <<>>, latencies |-> <<>>]

\* one successful enqueue: the call returned `result` after `latency`
enqueue(q, kwargs, result, latency) ==
    [input_args |-> Append(q.input_args, kwargs),
     results |-> Append(q.results, result),
     latencies |-> Append(q.latencies, latency)]

\* the dispatch loop over the first n keyword sets, all of which return
RECURSIVE EnqueueAll(_, _, _, _)
EnqueueAll(q, kwargsSeq, n, result) ==
    IF n = 0 THEN q
    ELSE enqueue(EnqueueAll(q, kwargsSeq, n - 1, result), kwargsSeq[n], result, Num(1))

\* raw results the completion call may return
ContentOutput == [message |-> [content |-> "hello"]]

FunctionOutput == [message |-> [function_call |-> [arguments |-> "{ \"a\":1 }"]]]

\* self.completion_fn as the DEBUG mocks behave: the function-call mock when
\* functions[0] is set, the chat mock otherwise
completion_fn(functions) ==
    IF functions[1] # None THEN FunctionOutput ELSE ContentOutput

\* json.dumps(json.loads(text)): re-serialises with the default separators
JsonNormalise(text) == IF text = "{ \"a\":1 }" THEN "{\"a\": 1}" ELSE text

extract_responses(output) ==
    IF "function_call" \in DOMAIN output.message
    THEN JsonNormalise(output.message.function_call.arguments)
    ELSE output.message.content

\* ------------------------------------------------------------------------
\* Result tables
\* ------------------------------------------------------------------------
NA == [ty |-> "NA"]

EmptyTable == [columns |-> <<>>, rows |-> <<>>]

\* union of the keyword names of all records, in order of first appearance
RECURSIVE InputColumns(_)
InputColumns(input_args) ==
    IF input_args = <<>> THEN <<>>
    ELSE LET n == Len(input_args)
             before == InputColumns(SubSeq(input_args, 1, n - 1))
         IN  before \o SelectSeq(Keys(input_args[n]), LAMBDA c : c \notin Range(before))

\* one row per execution record: input columns, response text, latency
ConstructFull(input_args, results, latencies) ==
    LET incols == InputColumns(input_args)
        cols == incols \o <<"response", "latency">>
    IN  [columns |-> cols,
         rows |-> [i \in 1..Len(results) |->
                     [c \in Range(cols) |->
                        IF c = "response" THEN Str(extract_responses(results[i]))
                        ELSE IF c = "latency" THEN latencies[i]
                        ELSE IF Has(input_args[i], c) THEN Get(input_args[i], c)
                        ELSE NA]]]

\* table[cols]: projection onto the named columns, same row index
Project(table, cols) ==
    [columns |-> cols,
     rows |-> [i \in 1..Len(table.rows) |-> [c \in Range(cols) |-> table.rows[i][c]]]]

CanProject(table, cols) == Range(cols) \subseteq Range(table.columns)

\* columns written by scoring; none is written by this class
ScoreColumns(table) == SelectSeq(table.columns, LAMBDA c : FALSE)

PartialColumns(table) == table.columns

\* ------------------------------------------------------------------------
\* Serialisation
\* ------------------------------------------------------------------------
pickle_dumps(obj) == [pickle |-> obj]

pickle_loads(blob) == blob.pickle

get_state(name, id, pkeys, args, full, partial, score) ==
    pickle_dumps(<< name, id,
                    [prompt_keys |-> pkeys, all_args |-> args],
                    full, partial.columns, score.columns >>)

\* what the load endpoint hands back: the saved state without name and id
StoredState(state) == SubSeq(state, 3, Len(state))

\* _load_state: the restored experiment, or the error it raises
load_state(state, id) ==
    IF Len(state) # 4 THEN [error |-> "ValueError"]
    ELSE LET state_params == state[1]
             full == state[2]
             partial_col_names == state[3]
             score_col_names == state[4]
             args == state_params.all_args
         IN  IF ~Has(args, "model") \/ ~Has(args, "messages")
             THEN [error |-> "KeyError"]
             ELSE IF ~CanProject(full, partial_col_names)
                     \/ ~CanProject(full, score_col_names)
             THEN [error |-> "KeyError"]
             ELSE [error |-> "none",
                   prompt_keys |-> state_params.prompt_keys,
                   all_args |-> args,
                   full_df |-> full,
                   partial_df |-> Project(full, partial_col_names),
                   score_df |-> Project(full, score_col_names),
                   experiment_id |-> id]

\* ------------------------------------------------------------------------
\* run_partial, step by step
\* ------------------------------------------------------------------------
\* a loop that catches the error of the raising call and goes on
DispatchLoopSwallow(q, kwargsSeq, fail, result) ==
    IF fail = 0 THEN EnqueueAll(q, kwargsSeq, Len(kwargsSeq), result)
    ELSE LET rest == SubSeq(kwargsSeq, fail + 1, Len(kwargsSeq))
         IN  EnqueueAll(EnqueueAll(q, kwargsSeq, fail - 1, result), rest, Len(rest), result)

\* the for loop over the keyword sets: `fail` is the position of the first
\* call that raises (0: none does); nothing catches the error, so the loop
\* stops there and the calls before it have been recorded
DispatchLoop(q, kwargsSeq, fail, result) ==
    EnqueueAll(q, kwargsSeq, IF fail = 0 THEN Len(kwargsSeq) ELSE fail - 1, result)

\* the calls handed to the completion function, the raising one included
Dispatched(seq, fail) == SubSeq(seq, 1, IF fail = 0 THEN Len(seq) ELSE fail)

\* a check that never reports missing progress
NoProgressNever(original_n_results, n_results) == original_n_results - n_results > 0

\* original_n_results - len(self.queue.get_results()) == 0
NoProgress(original_n_results, n_results) == original_n_results - n_results = 0

\* an extension that appends without looking
ExtendAlways(d, arg_name, arg_value) ==
    SetItem(d, arg_name, Append(Get(d, arg_name), arg_value))

\* if arg_value not in self.all_args[arg_name]: self.all_args[arg_name].append(arg_value)
ExtendAllArgs(d, arg_name, arg_value) ==
    IF arg_value \notin Range(Get(d, arg_name))
    THEN SetItem(d, arg_name, Append(Get(d, arg_name), arg_value))
    ELSE d

\* _get_prompts: the prompts of the combos, or the error the lookup raises
get_prompts(pkeys, combos) ==
    IF combos = <<>> THEN [error |-> "none", prompts |-> <<>>]
    ELSE IF \E i \in 1..Len(combos) : ~Has(combos[i], "messages")
    THEN [error |-> "KeyError"]
    ELSE IF pkeys.kind = "list" THEN [error |-> "TypeError"]
    ELSE IF \E i \in 1..Len(combos) :
                ~Has(pkeys.d, LastContent(Get(combos[i], "messages")))
    THEN [error |-> "KeyError"]
    ELSE [error |-> "none",
          prompts |-> [i \in 1..Len(combos) |->
                         Get(pkeys.d, LastContent(Get(combos[i], "messages")))]]

\* ------------------------------------------------------------------------
\* State
\* ------------------------------------------------------------------------
VARIABLES
    all_args,         \* self.all_args
    prompt_keys,      \* self.prompt_keys
    argument_combos,  \* self.argument_combos
    queue,            \* self.queue
    full_df,          \* self.full_df
    partial_df,       \* self.partial_df
    score_df,         \* self.score_df
    experiment_id,    \* self._experiment_id
    ran,              \* history: run() has completed
    last              \* history: the last operation, its inputs and its outcome

vars == <<all_args, prompt_keys, argument_combos, queue, full_df, partial_df,
          score_df, experiment_id, ran, last>>

state == <<all_args, prompt_keys, argument_combos, queue, full_df, partial_df,
           score_df, experiment_id>>

\* op: the operation; kwargs: its input; outcome: "ok" or the error raised;
\* combos, calls: the combos dispatched and the keyword sets handed to the
\* completion function, in order; fail: the position of the raising call
Op(name, kwargs, outcome, combos, calls, fail) ==
    [op |-> name, kwargs |-> kwargs, outcome |-> outcome, combos |-> combos,
     calls |-> calls, fail |-> fail, loaded |-> <<>>]

Models == {<<Str("m1")>>, <<Str("m1"), Str("m2")>>}

MessageLists == {<<c1, c2>>, <<s1, s2>>}

Temperatures == {<<>>, <<Num(0)>>}

Ids == {Str("e1"), Str("e2")}

\* the constructor calls the model starts from
Constructions ==
    [model : Models, messages : MessageLists, temperature : Temperatures,
     azure : {FALSE}]
    \cup
    [model : {<<Str("m1")>>}, messages : {<<c1, c2>>}, temperature : {<<Num(0)>>},
     azure : {TRUE}]

Init ==
    \E c \in Constructions :
        /\ all_args = InitAllArgs(c.model, c.messages, c.temperature, <<None>>, c.azure)
        /\ prompt_keys = InitPromptKeys(c.messages)
        /\ argument_combos = Combos(all_args)
        /\ queue = EmptyQueue
        /\ full_df = EmptyTable
        /\ partial_df = EmptyTable
        /\ score_df = EmptyTable
        /\ experiment_id = None
        /\ ran = FALSE
        /\ last = Op("init", <<>>, "ok", <<>>, <<>>, 0)

\* _construct_result_dfs(queue.get_input_args(), get_results(), get_latencies())
ConstructResultDfs(q) ==
    LET full == ConstructFull(q.input_args, q.results, q.latencies)
    IN  /\ full_df' = full
        /\ partial_df' = Project(full, PartialColumns(full))
        /\ score_df' = Project(full, ScoreColumns(full))

\* ------------------------------------------------------------------------
\* run(): the initial run over argument_combos
\* ------------------------------------------------------------------------
run ==
    LET result == completion_fn(Get(all_args, "functions"))
        kw == FilterEach(argument_combos)
    IN  /\ queue = EmptyQueue
        /\ Len(argument_combos) <= MaxRecords
        /\ \E fail \in 0..Len(argument_combos) :
            LET q1 == DispatchLoop(queue, kw, fail, result)
            IN  /\ queue' = q1
                /\ IF fail > 0
                   THEN /\ last' = Op("run", <<>>, "CompletionError",
                                      Dispatched(argument_combos, fail),
                                      Dispatched(kw, fail), fail)
                        /\ UNCHANGED <<full_df, partial_df, score_df, ran>>
                   ELSE /\ last' = Op("run", <<>>, "ok", argument_combos, kw, fail)
                        /\ ConstructResultDfs(q1)
                        /\ ran' = TRUE
        /\ UNCHANGED <<all_args, prompt_keys, argument_combos, experiment_id>>

\* ------------------------------------------------------------------------
\* run_partial(**kwargs)
\* ------------------------------------------------------------------------
RunPartialInputs ==
    { <<[k |-> "model", v |-> Str("m1")]>>,
      <<[k |-> "model", v |-> Str("m3")]>>,
      <<[k |-> "messages", v |-> c3]>>,
      <<[k |-> "temperature", v |-> Num(0)]>>,
      <<[k |-> "logit_bias", v |-> None]>>,
      <<[k |-> "foo", v |-> Num(1)]>>,
      <<>>,
      <<[k |-> "model", v |-> Str("m3")], [k |-> "temperature", v |-> Num(1)]>> }

run_partial(kwargs) ==
    IF Len(kwargs) # 1
    THEN /\ last' = Op("run_partial", kwargs,
                       IF Len(kwargs) > 1 THEN "RuntimeError" ELSE "IndexError",
                       <<>>, <<>>, 0)
         /\ UNCHANGED <<state, ran>>
    ELSE
    LET arg_name == kwargs[1].k
        arg_value == kwargs[1].v
        partial_all_args == PartialAllArgs(all_args, arg_name, arg_value)
        partial_argument_combos == Combos(partial_all_args)
        kw == FilterEach(partial_argument_combos)
        original_n_results == Len(queue.results)
        result == completion_fn(Get(all_args, "functions"))
    IN  /\ original_n_results + Len(partial_argument_combos) <= MaxRecords
        /\ UNCHANGED <<experiment_id, ran>>
        /\ \E fail \in 0..Len(partial_argument_combos) :
            LET q1 == DispatchLoop(queue, kw, fail, result)
                combos == Dispatched(partial_argument_combos, fail)
                calls == Dispatched(kw, fail)
            IN
            /\ queue' = q1
            /\ IF fail > 0
               \* a completion call raised: the error leaves run_partial
               THEN /\ last' = Op("run_partial", kwargs, "CompletionError",
                                  combos, calls, fail)
                    /\ UNCHANGED <<all_args, prompt_keys, argument_combos,
                                   full_df, partial_df, score_df>>
               ELSE IF NoProgress(original_n_results, Len(q1.results))
               THEN /\ last' = Op("run_partial", kwargs, "PromptExperimentException",
                                  combos, calls, fail)
                    /\ UNCHANGED <<all_args, prompt_keys, argument_combos,
                                   full_df, partial_df, score_df>>
               ELSE /\ ConstructResultDfs(q1)
                    /\ IF ~Has(all_args, arg_name)
                       THEN /\ last' = Op("run_partial", kwargs, "KeyError",
                                          combos, calls, fail)
                            /\ UNCHANGED <<all_args, prompt_keys, argument_combos>>
                       ELSE LET extended == ExtendAllArgs(all_args, arg_name, arg_value)
                            IN  /\ last' = Op("run_partial", kwargs, "ok",
                                              combos, calls, fail)
                                /\ all_args' = extended
                                \* in list form prompt_keys is the messages list itself
                                /\ prompt_keys' =
                                     IF prompt_keys.kind = "list"
                                     THEN [kind |-> "list", l |-> Get(extended, "messages")]
                                     ELSE prompt_keys
                                \* self.prepare(), only when the value was new
                                /\ argument_combos' =
                                     IF arg_value \notin Range(Get(all_args, arg_name))
                                     THEN Combos(extended)
                                     ELSE argument_combos

\* ------------------------------------------------------------------------
\* save_experiment(name)
\* ------------------------------------------------------------------------
\* what the save endpoint may answer
\* a success carries the assigned id; an error answer carries none
Responses ==
    [status : {200},
     body : {[json |-> TRUE, experiment_id |-> Str("e1")],
             [json |-> TRUE, experiment_id |-> Str("e2")],
             [json |-> TRUE, experiment_id |-> None]}]
    \cup
    [status : {500},
     body : {[json |-> FALSE], [json |-> TRUE, experiment_id |-> None]}]

\* response.json().get("experiment_id")
ResponseId(response) == response.body.experiment_id

save_experiment(name, key_set, response) ==
    /\ IF ~key_set
       THEN /\ last' = Op("save_experiment", <<>>, "KeyError", <<>>, <<>>, 0)
            /\ UNCHANGED experiment_id
       ELSE IF ~response.body.json
       THEN /\ last' = Op("save_experiment", <<response>>, "JSONDecodeError",
                          <<>>, <<>>, 0)
            /\ UNCHANGED experiment_id
       ELSE /\ last' = Op("save_experiment", <<response>>, "ok", <<>>, <<>>, 0)
            /\ experiment_id' = ResponseId(response)
    /\ UNCHANGED <<all_args, prompt_keys, argument_combos, queue, full_df,
                   partial_df, score_df, ran>>

\* ------------------------------------------------------------------------
\* _get_state / _load_state
\* ------------------------------------------------------------------------
\* state handed to _load_state: the unpickled snapshot itself, or the
\* snapshot as the load endpoint returns it (without name and id)
load_experiment(name, id, stored) ==
    LET blob == get_state(name, experiment_id, prompt_keys, all_args,
                          full_df, partial_df, score_df)
        snapshot == pickle_loads(blob)
        given == IF stored THEN StoredState(snapshot) ELSE snapshot
        result == load_state(given, id)
    IN  /\ last' = [Op("load_state", <<stored>>, result.error, <<>>, <<>>, 0)
                      EXCEPT !.loaded = result]
        /\ UNCHANGED <<state, ran>>

\* ------------------------------------------------------------------------
\* Specification
\* ------------------------------------------------------------------------
Next ==
    \/ run
    \/ \E kwargs \in RunPartialInputs : run_partial(kwargs)
    \/ \E key_set \in BOOLEAN, response \in Responses :
          save_experiment("exp", key_set, response)
    \/ \E id \in Ids, stored \in BOOLEAN : load_experiment("exp", id, stored)

Spec == Init /\ [][Next]_vars

\* the experiment alone, without the persistence endpoint
NextRun ==
    \/ run
    \/ \E kwargs \in RunPartialInputs : run_partial(kwargs)

SpecRun == Init /\ [][NextRun]_vars

\* ------------------------------------------------------------------------
\* Properties
\* ------------------------------------------------------------------------
\* the step just taken was run_partial with one keyword
IsPartial(l) == l.op = "run_partial" /\ Len(l.kwargs) = 1

Sentinels == {None, Inf}

\* product of sizes[j..]
RECURSIVE SizeProduct(_, _)
SizeProduct(sizes, j) ==
    IF j > Len(sizes) THEN 1 ELSE sizes[j] * SizeProduct(sizes, j + 1)

\* C1: a run_partial(p=v) that completes invokes the completion function once
\* per member of the product of the parameter lists with p's list replaced by
\* [v]: as many invocations as the product of the sizes of the other lists,
\* each combo with one value of every parameter and v for p, in product order
\* with the last-declared parameter varying fastest.
C1_PartialGrid ==
    [][ (IsPartial(last') /\ last'.outcome = "ok") =>
        LET p == last'.kwargs[1].k
            v == last'.kwargs[1].v
            n == Len(all_args)
            sizes == [j \in 1..n |-> IF all_args[j].k = p THEN 1 ELSE Len(all_args[j].v)]
            total == SizeProduct(sizes, 1)
            stride == [j \in 1..n |-> SizeProduct(sizes, j + 1)]
        IN  /\ Len(last'.combos) = total
            /\ Len(last'.calls) = total
            /\ Len(queue'.results) = Len(queue.results) + total
            /\ \A i \in 1..total :
                 /\ Len(last'.combos[i]) = n
                 /\ Get(last'.combos[i], p) = v
                 /\ \A j \in 1..n :
                      /\ last'.combos[i][j].k = all_args[j].k
                      /\ last'.combos[i][j].v =
                           IF all_args[j].k = p THEN v
                           ELSE all_args[j].v[(((i - 1) \div stride[j]) % sizes[j]) + 1]
      ]_vars

\* a completed run_partial over two lists of two values each
C1_Witness ==
    /\ IsPartial(last)
    /\ last.outcome = "ok"
    /\ Len(last.combos) = 4
    /\ last.combos[2][1].v # last.combos[3][1].v

\* C2: no keyword set that run_partial hands to the completion function
\* carries None or infinity; every other entry of the combo is kept with its
\* value; and the stored parameter space keeps its sentinel values.
C2_SentinelsStripped ==
    [][ IsPartial(last') =>
        /\ \A i \in 1..Len(last'.calls) :
             LET combo == last'.combos[i]
                 kwargs == last'.calls[i]
             IN  /\ \A j \in 1..Len(kwargs) :
                      kwargs[j].v \notin Sentinels /\ kwargs[j] \in Range(combo)
                 /\ \A j \in 1..Len(combo) :
                      combo[j].v \notin Sentinels =>
                          Has(kwargs, combo[j].k) /\ Get(kwargs, combo[j].k) = combo[j].v
                 /\ Len(kwargs) = Cardinality({j \in 1..Len(combo) : combo[j].v \notin Sentinels})
        /\ \A j \in 1..Len(all_args) :
             \A x \in Range(all_args[j].v) :
                x \in Sentinels =>
                    Has(all_args', all_args[j].k) /\ x \in Range(Get(all_args', all_args[j].k))
      ]_vars

\* a dispatched combo that held both sentinels and lost exactly them
C2_Witness ==
    /\ IsPartial(last)
    /\ Len(last.calls) > 0
    /\ Get(last.combos[1], "max_tokens") = Inf
    /\ Get(last.combos[1], "stop") = None
    /\ ~Has(last.calls[1], "max_tokens")
    /\ Has(last.calls[1], "model")

\* old values of the old columns of the rows a table had before
RowsKept(old, new) ==
    /\ Len(new.rows) >= Len(old.rows)
    /\ \A i \in 1..Len(old.rows) :
         \A c \in Range(old.columns) :
            c \in Range(new.columns) /\ new.rows[i][c] = old.rows[i][c]

\* C3: after an initial run, a run_partial that produces P new records leaves
\* the full table with (previous row count) + P rows, the previous rows
\* unchanged and in place, whatever run_partial calls came before.
C3_IncrementalAppend ==
    [][ (ran /\ Len(full_df.rows) > 0
         /\ IsPartial(last') /\ last'.outcome \in {"ok", "KeyError"}) =>
        /\ Len(full_df'.rows) =
             Len(full_df.rows) + (Len(queue'.results) - Len(queue.results))
        /\ RowsKept(full_df, full_df')
      ]_vars

\* C4: a run_partial(p=v) that completes appends v once to p's list when it
\* was not there, leaves the list alone when it was, and leaves every other
\* list alone; so v is in p's list exactly once.
C4_ExtendOnce ==
    [][ (IsPartial(last') /\ last'.outcome = "ok") =>
        LET p == last'.kwargs[1].k
            v == last'.kwargs[1].v
            old == Get(all_args, p)
            new == Get(all_args', p)
        IN  /\ Has(all_args, p) /\ Has(all_args', p)
            /\ v \notin Range(old) => new = Append(old, v)
            /\ v \in Range(old) => new = old
            /\ Cardinality({i \in 1..Len(new) : new[i] = v}) = 1
            /\ Len(all_args') = Len(all_args)
            /\ \A j \in 1..Len(all_args) :
                 all_args[j].k # p => all_args'[j] = all_args[j]
      ]_vars

\* model "m3" was passed twice (all four records are m3's) and is listed once
C4_Witness ==
    /\ IsPartial(last)
    /\ last.outcome = "ok"
    /\ last.kwargs[1] = [k |-> "model", v |-> Str("m3")]
    /\ Has(all_args, "model")
    /\ Get(all_args, "model") = <<Str("m1"), Str("m3")>>
    /\ Len(queue.input_args) = 4
    /\ \A i \in 1..4 : Get(queue.input_args[i], "model") = Str("m3")

\* C5: run_partial with a keyword that is not a known argument name fails
\* before any completion call is dispatched and leaves the queue, the tables
\* and the parameter space as they were.
C5_UnknownNameRejected ==
    [][ (IsPartial(last') /\ ~validate_arg_key(last'.kwargs[1].k)) =>
        /\ last'.outcome # "ok"
        /\ last'.calls = <<>>
        /\ UNCHANGED state
      ]_vars

\* C6: restoring the snapshot of a non-empty experiment succeeds and yields
\* equal full, partial and score tables, parameter space and prompt keys.
C6_RoundTrip ==
    (last.op = "load_state" /\ last.kwargs = <<FALSE>> /\ Len(full_df.rows) > 0) =>
        /\ last.loaded.error = "none"
        /\ last.loaded.full_df = full_df
        /\ last.loaded.partial_df = partial_df
        /\ last.loaded.score_df = score_df
        /\ last.loaded.all_args = all_args
        /\ last.loaded.prompt_keys = prompt_keys

\* C7: run_partial raises PromptExperimentException exactly when its dispatch
\* loop ended with no new record in the queue, and then neither the tables
\* nor the parameter space have been touched.
C7_NoProgress ==
    [][ IsPartial(last') =>
        LET added == Len(queue'.results) - Len(queue.results)
            raised == last'.outcome = "PromptExperimentException"
        IN  /\ raised <=> (last'.fail = 0 /\ added = 0)
            /\ added > 0 => ~raised
            /\ raised => UNCHANGED <<all_args, prompt_keys, argument_combos,
                                      full_df, partial_df, score_df>>
      ]_vars

\* a run_partial over an empty grid: no call, no record, the exception
C7_Witness ==
    /\ IsPartial(last)
    /\ last.outcome = "PromptExperimentException"
    /\ last.calls = <<>>

\* C8: when the completion call of combo ck raises, run_partial lets the
\* error out, the queue holds what it held plus the records of c1..c(k-1) in
\* order, ck is the last combo dispatched, and the parameter space is as it was.
C8_FailurePropagates ==
    [][ (IsPartial(last') /\ last'.fail > 0) =>
        LET k == last'.fail
            before == SubSeq(last'.calls, 1, k - 1)
        IN  /\ last'.outcome = "CompletionError"
            /\ Len(last'.calls) = k
            /\ queue'.input_args = queue.input_args \o before
            /\ Len(queue'.results) = Len(queue.results) + (k - 1)
            /\ Len(queue'.latencies) = Len(queue.latencies) + (k - 1)
            /\ SubSeq(queue'.results, 1, Len(queue.results)) = queue.results
            /\ all_args' = all_args
            /\ UNCHANGED <<full_df, partial_df, score_df>>
      ]_vars

\* the second of four combos raised: one record, two combos never dispatched
C8_Witness ==
    /\ IsPartial(last)
    /\ last.outcome = "CompletionError"
    /\ last.fail = 2
    /\ Len(queue.results) = 1
    /\ Len(Combos(PartialAllArgs(all_args, last.kwargs[1].k, last.kwargs[1].v))) = 4

\* C9: the experiment id changes only by a successful save, one answered
\* with status 200 and an experiment_id.
C9_IdOnlyBySuccessfulSave ==
    [][ experiment_id' # experiment_id =>
        /\ last'.op = "save_experiment"
        /\ last'.outcome = "ok"
        /\ last'.kwargs[1].status = 200
        /\ last'.kwargs[1].body.experiment_id # None
      ]_vars

\* C10: for an experiment built from prompt selectors, every conversation of
\* the messages list has its key in prompt_keys, so _get_prompts finds every
\* combo's prompt.
C10_PromptsRegistered ==
    prompt_keys.kind = "dict" =>
        /\ \A conv \in Range(Get(all_args, "messages")) :
             Has(prompt_keys.d, LastContent(conv))
        /\ get_prompts(prompt_keys, argument_combos).error = "none"

====
